---- MODULE Spec2Model ----
(***************************************************************************)
(* Model of the CDC relay: main.py (orchestrator), event_handler.py        *)
(* (ConflictResolver, EventHandler, OffsetManager) and the PostgreSQL and  *)
(* MySQL connectors.  One replicated table with primary key column "id"    *)
(* and one data column "name".                                             *)
(***************************************************************************)
EXTENDS Integers, Sequences, FiniteSets, TLC

\* ---------------------------------------------------------------- bounds
MaxKey == 2
MaxWal == 2
MaxRestarts == 1
MaxBuffer == 2
MaxDeliveries == 2
MaxTime == 2

\* ------------------------------------------------------------- constants
\* main.py:123  "if handler.processed_count % 100 == 0"
CheckpointEvery == 100
\* Python's None for an offset / position  (event_handler.py:142)
None == -1

\* ------------------------------------------------------------ data model
Keys == 1..MaxKey
Vals == {"a", "b"}
Absent == "absent"
Rows == [id : Keys, name : Vals]
\* a before/after image that is None
NoImage == [id |-> 0, name |-> Absent]
\* a table with primary key id: key -> name, or Absent when there is no row
Tables == [Keys -> Vals \cup {Absent}]
EmptyTable == [k \in Keys |-> Absent]

OperationType == {"INSERT", "UPDATE", "DELETE", "SNAPSHOT"}

ChangeEvent(op, before, after, pk, ts, lsn, src) ==
    [operation |-> op, before |-> before, after |-> after,
     primary_key |-> pk, timestamp |-> ts, lsn |-> lsn, source_db |-> src]

\* Python's None where a ChangeEvent is expected
NoEvent == ChangeEvent("NONE", NoImage, NoImage, 0, 0, 0, "none")

\* the key image {"id": k}
KeyImage(k) == [id |-> k, name |-> Absent]

\* ------------------------------------------------------- apply_change
\* cursor.execute outcomes: [raised, table]
Raised(t) == [raised |-> TRUE, table |-> t]
Done(t) == [raised |-> FALSE, table |-> t]

\* a duplicate-key fallback that deletes the row in the way and inserts nothing
ExecInsertDropsDuplicate(t, after) ==
    IF after = NoImage THEN Raised(t)
    ELSE IF t[after.id] # Absent THEN Done([t EXCEPT ![after.id] = Absent])
    ELSE Done([t EXCEPT ![after.id] = after.name])

\* INSERT INTO t (id, name) VALUES (...): a duplicate primary key raises
ExecInsert(t, after) ==
    IF after = NoImage THEN Raised(t)
    ELSE IF t[after.id] # Absent THEN Raised(t)
    ELSE Done([t EXCEPT ![after.id] = after.name])

\* an UPDATE that writes the after image whether or not the old row exists
ExecUpdateUpsert(t, pk, after) ==
    IF after = NoImage THEN Raised(t)
    ELSE Done([t EXCEPT ![pk] = Absent, ![after.id] = after.name])

\* an UPDATE whose SET clause leaves the key column out
ExecUpdateKeepsKey(t, pk, after) ==
    IF after = NoImage THEN Raised(t)
    ELSE IF t[pk] = Absent THEN Done(t)
    ELSE Done([t EXCEPT ![pk] = after.name])

\* UPDATE t SET id = after.id, name = after.name WHERE id = pk

ExecUpdate(t, pk, after) ==
    IF after = NoImage THEN Raised(t)
    ELSE IF t[pk] = Absent THEN Done(t)
    ELSE IF after.id # pk /\ t[after.id] # Absent THEN Raised(t)
    ELSE Done([t EXCEPT ![pk] = Absent, ![after.id] = after.name])

\* DELETE FROM t WHERE id = pk
ExecDelete(t, pk) == Done([t EXCEPT ![pk] = Absent])

\* MySQLConnector.apply_change (PostgreSQLConnector.apply_change builds the
\* same three statements).  fault: the driver raises while executing (lost
\* connection, deadlock, lock timeout).  Returns [ok, table].
apply_change(t, event, fault) ==
    LET r == CASE event.operation = "INSERT" ->
                    IF fault THEN Raised(t) ELSE ExecInsert(t, event.after)
               [] event.operation = "UPDATE" ->
                    IF fault THEN Raised(t)
                    ELSE ExecUpdate(t, event.primary_key, event.after)
               [] event.operation = "DELETE" ->
                    IF fault THEN Raised(t)
                    ELSE ExecDelete(t, event.primary_key)
               [] OTHER -> Done(t)
    IN  [ok |-> ~r.raised, table |-> r.table]

\* EventHandler.__init__
NewHandler == [processed_count |-> 0, error_count |-> 0]

process_event_counts_successes_only(h, t, event, fault) ==
    LET r == apply_change(t, event, fault)
    IN  [ok |-> r.ok,
         table |-> r.table,
         handler |-> IF r.ok
                     THEN [h EXCEPT !.processed_count = @ + 1]
                     ELSE h]

\* EventHandler.process_event: returns [ok, handler, table]
process_event(h, t, event, fault) ==
    LET r == apply_change(t, event, fault)
    IN  [ok |-> r.ok,
         table |-> r.table,
         handler |-> IF r.ok
                     THEN [h EXCEPT !.processed_count = @ + 1]
                     ELSE [h EXCEPT !.error_count = @ + 1]]

\* ------------------------------------------------------- OffsetManager
\* f"source_{settings.source_db.type}"  (main.py:111, 126)
StreamNames == {"source_postgresql", "source_mysql"}
StreamName(cfg) ==
    IF cfg.source_type = "postgresql" THEN "source_postgresql"
    ELSE "source_mysql"

\* offsets.json: connector name -> position, None when the name has no entry
\* (a missing file loads as {})
NoOffsets == [n \in StreamNames |-> None]

\* offsets.json after open(offset_file, "w") truncated it and json.dump did
\* not complete: empty or cut short, json.load raises JSONDecodeError
Torn == -2
TornFile == [n \in StreamNames |-> Torn]

\* json.load(f) of load_offsets returns
Readable(file) == file # TornFile

load_offsets(file) == file

save_offset_overwrites(file, connector_name, position) ==
    [NoOffsets EXCEPT ![connector_name] = position]

save_offset(file, connector_name, position) ==
    [load_offsets(file) EXCEPT ![connector_name] = position]

get_offset(file, connector_name) == load_offsets(file)[connector_name]

\* how the write of save_offset ends: it completes; open() raises and the
\* file is as before; json.dump raises after open() truncated the file; the
\* process dies after open() truncated the file
SaveOutcomes == {"saved", "open_fails", "write_fails", "killed"}

\* offsets.json after save_offset on a readable file
write_offsets(file, connector_name, position, outcome) ==
    CASE outcome = "saved" -> save_offset(file, connector_name, position)
      [] outcome = "open_fails" -> file
      [] OTHER -> TornFile

\* save_offset raises: load_offsets cannot parse the file, or the write fails
save_raises(file, outcome) ==
    ~Readable(file) \/ outcome \in {"open_fails", "write_fails"}

\* ----------------------------------------------------- ConflictResolver
Strategies == {"last_write_wins", "source_priority", "target_priority"}

resolveByTimestampOnly(strategy, local_event, remote_event) ==
    IF local_event.timestamp > remote_event.timestamp
    THEN local_event ELSE remote_event

resolve(strategy, local_event, remote_event) ==
    CASE strategy = "last_write_wins" ->
            IF local_event.timestamp > remote_event.timestamp
            THEN local_event ELSE remote_event
      [] strategy = "source_priority" -> local_event
      [] strategy = "target_priority" -> remote_event
      [] OTHER -> NoEvent

\* ------------------------------------------------ source log and parsing
\* a decoded WAL change record: action, identity (old key image), columns
WalRecord(action, identity, columns) ==
    [action |-> action, identity |-> identity, columns |-> columns]

\* the records a write at a source table in state t puts into the log
Writes(t) ==
    {WalRecord("I", NoImage, row) : row \in {r \in Rows : t[r.id] = Absent}}
    \cup UNION {{WalRecord("U", KeyImage(k), row) :
                    row \in {r \in Rows : r.id = k \/ t[r.id] = Absent}} :
                 k \in {x \in Keys : t[x] # Absent}}
    \cup {WalRecord("D", KeyImage(k), NoImage) : k \in {x \in Keys : t[x] # Absent}}

\* every change record some source state can log
WalRecords == UNION {Writes(t) : t \in Tables}

\* the source table after the writes of the log w
RECURSIVE SrcTable(_)
SrcTable(w) ==
    IF w = <<>> THEN EmptyTable
    ELSE LET t == SrcTable(SubSeq(w, 1, Len(w) - 1))
             r == w[Len(w)]
         IN  CASE r.action = "I" -> [t EXCEPT ![r.columns.id] = r.columns.name]
               [] r.action = "U" -> [t EXCEPT ![r.identity.id] = Absent,
                                              ![r.columns.id] = r.columns.name]
               [] OTHER -> [t EXCEPT ![r.identity.id] = Absent]

\* PostgreSQLConnector._extract_pk: the columns named id or *_id; {} (0) for None
extract_pk(data) == data.id

\* PostgreSQLConnector._parse_wal_data
parse_wal_data(data, lsn, now) ==
    CASE data.action = "I" ->
            ChangeEvent("INSERT", NoImage, data.columns,
                        extract_pk(data.columns), now, lsn, "postgresql")
      [] data.action = "U" ->
            ChangeEvent("UPDATE", data.identity, data.columns,
                        extract_pk(data.identity), now, lsn, "postgresql")
      [] data.action = "D" ->
            ChangeEvent("DELETE", data.identity, NoImage,
                        extract_pk(data.identity), now, lsn, "postgresql")
      [] OTHER -> NoEvent

\* MySQLConnector._extract_pk_from_row with primary key id
extract_pk_from_row(data) == data.id

\* MySQLConnector._parse_binlog_event: event_type is the binlog event's class
\* name, before/after the row images it carries
BinlogEventTypes == {"WriteRowsEvent", "UpdateRowsEvent", "DeleteRowsEvent", "RowsEvent"}
parse_binlog_event(event_type, before_values, after_values, ts, log_pos) ==
    LET operation == CASE event_type = "WriteRowsEvent" -> "INSERT"
                       [] event_type = "UpdateRowsEvent" -> "UPDATE"
                       [] event_type = "DeleteRowsEvent" -> "DELETE"
                       [] OTHER -> "SNAPSHOT"
        before == IF operation \in {"UPDATE", "DELETE"} THEN before_values ELSE NoImage
        after == IF operation = "DELETE" THEN NoImage ELSE after_values
    IN  ChangeEvent(operation, before, after,
                    extract_pk_from_row(IF before # NoImage THEN before ELSE after),
                    ts, log_pos, "mysql")

\* PostgreSQLConnector.get_current_position: pg_current_wal_lsn()
get_current_position(w) == Len(w)

\* ------------------------------------------------------------------ state
VARIABLES
    wal,          \* the source's log of committed changes; position i is LSN i
    target,       \* the replicated table at the target
    offsetFile,   \* offsets.json
    settings,     \* get_settings(): [valid, source_type]
    pc,           \* where main() is
    exitCode,     \* the status the program exited with, None when it did not exit itself
    connected,    \* [source, target]: BaseConnector.connected
    handler,      \* EventHandler counters
    start_lsn,    \* start position of the replication stream, None before it starts
    streamPos,    \* last log position the connector has read
    event_stream, \* events yielded by start_streaming and not yet taken by the loop
    decoded,      \* LSNs of the change records the connector decoded, this run
    handled,      \* LSNs of the events given to process_event, this run
    appliedOk,    \* LSNs of the events apply_change applied with success, ever
    restarts,     \* how many times the process was started again
    firstStart,   \* start_lsn of the first run, None before it
    hist,         \* history: failed applies, feedback sent, offset store failure
    probe,        \* apply_change under test: event, returns, faults, tables
    conflict,     \* ConflictResolver under test: strategy, events, winner
    mirror,       \* two handlers wired in opposite directions between two tables
    parsed,       \* the connectors' parsers under test: input shapes, events built
    cdc,          \* setup_cdc under test: the server's catalog and variables
    saves         \* OffsetManager under test: the saves made so far

vars == <<wal, target, offsetFile, settings, pc, exitCode, connected, handler,
          start_lsn, streamPos, event_stream, decoded, handled, appliedOk,
          restarts, firstStart, hist, probe, conflict, mirror, parsed, cdc, saves>>

sourceVars == <<wal>>
runVars == <<pc, exitCode, connected>>
streamVars == <<start_lsn, streamPos, event_stream, decoded, firstStart>>
applyVars == <<target, handler, handled, appliedOk, hist>>
checkVars == <<parsed, cdc, saves>>
unitVars == <<probe, conflict, mirror, checkVars>>

\* SyncConfig.max_retries (config/settings.py:51); no code reads it
max_retries == 3

SettingsSet == [valid : BOOLEAN, source_type : {"postgresql", "mysql"}]

NoProbe == [event |-> NoEvent, rets |-> <<>>, faults |-> <<>>, tables |-> <<>>,
            target0 |-> EmptyTable]
NoConflict == [strategy |-> "last_write_wins", local_event |-> NoEvent,
               remote_event |-> NoEvent, winner |-> NoEvent, resolved |-> FALSE]

\* transient, permanent: LSNs whose apply failed in this run: the driver
\* raised while executing (lost connection, deadlock, lock timeout), or the
\* target rejected the statement (existing key); feedback: LSNs reported to the source as flushed; ioFailedAt:
\* Len(handled) when save_offset raised in this run; targetWrites: the
\* changes the target's own clients committed, as events; overwrote: the
\* pairs [incoming, local] of an incoming event that was applied and an
\* earlier change of the target's clients to the same primary key;
\* applying: process_event is inside target.apply_change; lifecycle: the
\* calls of main() that returned without raising in this run, in order;
\* created: the connector classes main() instantiated in this run;
\* disconnects: the calls of disconnect() on either connector in this run
NoConnectors == [source |-> "none", target |-> "none"]
NoDisconnects == [source |-> 0, target |-> 0]
NoHist == [transient |-> {}, permanent |-> {}, feedback |-> {},
           ioFailedAt |-> None, targetWrites |-> {}, overwrote |-> {},
           applying |-> FALSE, lifecycle |-> <<>>,
           created |-> NoConnectors, disconnects |-> NoDisconnects]

\* a, b: the table at either endpoint; logA, logB: each endpoint's log of
\* row changes; readA, readB: how far the handler reading that log has got;
\* hAB, hBA: the EventHandler of either direction; writes: client writes at a
NoMirror == [a |-> EmptyTable, b |-> EmptyTable, logA |-> <<>>, logB |-> <<>>,
             readA |-> 0, readB |-> 0, hAB |-> NewHandler, hBA |-> NewHandler,
             writes |-> 0]

\* no parser input, no event built, no binlog position emitted
NoParsed == [table |-> [columns |-> {}, pk |-> {}],
             event |-> [operation |-> "NONE", before |-> {}, after |-> {},
                        primary_key |-> {}, source_db |-> "none"],
             positions |-> <<>>, file |-> 0, log_pos |-> 0]

\* a server no setup_cdc call was made on
NoCdc == [engine |-> "none", slot |-> FALSE, publication |-> {}, log_bin |-> "OFF",
          binlog_format |-> "ROW", tables |-> {}, calls |-> 0, raised |-> FALSE,
          created |-> {}, before |-> [slot |-> FALSE, publication |-> {}]]

\* no save made
NoSaves == [count |-> 0, saved |-> {}, name |-> "none", position |-> None,
            before |-> NoOffsets]

\* the process before main() runs, nothing persisted yet
Init ==
    /\ wal = <<>>
    /\ target = EmptyTable
    /\ offsetFile = NoOffsets
    /\ settings \in SettingsSet
    /\ pc = "main"
    /\ exitCode = None
    /\ connected = [source |-> FALSE, target |-> FALSE]
    /\ handler = NewHandler
    /\ start_lsn = None
    /\ streamPos = None
    /\ event_stream = <<>>
    /\ decoded = <<>>
    /\ handled = <<>>
    /\ appliedOk = {}
    /\ restarts = 0
    /\ firstStart = None
    /\ hist = NoHist
    /\ probe = NoProbe
    /\ conflict = NoConflict
    /\ mirror = NoMirror
    /\ parsed = NoParsed
    /\ cdc = NoCdc
    /\ saves = NoSaves

\* ------------------------------------------------------------ environment
\* a client of the source database commits a row change
SourceCommit ==
    /\ Len(wal) < MaxWal
    /\ \E r \in Writes(SrcTable(wal)) : wal' = Append(wal, r)
    /\ UNCHANGED <<settings, offsetFile, runVars, streamVars, applyVars,
                   restarts, unitVars>>

\* SIGKILL / power loss: the process ends wherever it is
Kill ==
    /\ pc # "exited"
    /\ pc' = "exited"
    /\ UNCHANGED <<wal, settings, offsetFile, exitCode, connected, streamVars, applyVars,
                   restarts, unitVars>>

\* the operator starts the program again: new process, persisted state kept
Restart ==
    /\ pc = "exited"
    /\ restarts < MaxRestarts
    /\ restarts' = restarts + 1
    /\ pc' = "main"
    /\ exitCode' = None
    /\ connected' = [source |-> FALSE, target |-> FALSE]
    /\ handler' = NewHandler
    /\ start_lsn' = None
    /\ streamPos' = None
    /\ event_stream' = <<>>
    /\ decoded' = <<>>
    /\ handled' = <<>>
    /\ hist' = [hist EXCEPT !.transient = {}, !.permanent = {}, !.ioFailedAt = None,
                            !.applying = FALSE, !.lifecycle = <<>>,
                            !.created = NoConnectors,
                            !.disconnects = NoDisconnects]
    /\ UNCHANGED <<wal, settings, offsetFile, target, appliedOk, firstStart, unitVars>>

\* ------------------------------------------------------------------ main
\* ConnectorFactory._connectors after the two connector modules registered
\* themselves (postgresql.py:318, mysql.py:309)
DbTypes == {"postgresql", "mysql"}
connectors == [postgresql |-> "PostgreSQLConnector", mysql |-> "MySQLConnector"]

\* ConnectorFactory.create: the class registered for db_type
create(db_type) == connectors[db_type]

\* main.py:23-61: validate the settings, create the two connectors:
\* ConnectorFactory.create("postgresql", ...) for the source and
\* ConnectorFactory.create("mysql", ...) for the target
Validate ==
    /\ pc = "main"
    /\ IF settings.valid
       THEN /\ pc' = "connect"
            /\ exitCode' = exitCode
            /\ hist' = [hist EXCEPT !.created = [source |-> create("postgresql"),
                                                 target |-> create("mysql")]]
       ELSE /\ pc' = "exited"
            /\ exitCode' = 1
            /\ hist' = hist
    /\ UNCHANGED <<wal, settings, offsetFile, connected, streamVars, target,
                   handler, handled, appliedOk, restarts, unitVars>>

\* main.py:64-71: source.connect(); target.connect()
Connect ==
    /\ pc = "connect"
    /\ \E outcome \in {"ok", "source_fails", "target_fails"} :
          CASE outcome = "ok" ->
                  /\ connected' = [source |-> TRUE, target |-> TRUE]
                  /\ pc' = "setup_cdc"
                  /\ exitCode' = exitCode
                  /\ hist' = [hist EXCEPT !.lifecycle =
                                @ \o <<"source.connect", "target.connect">>]
            [] outcome = "source_fails" ->
                  /\ connected' = connected
                  /\ pc' = "exited"
                  /\ exitCode' = 1
                  /\ hist' = hist
            [] OTHER ->
                  /\ connected' = [connected EXCEPT !.source = TRUE]
                  /\ pc' = "exited"
                  /\ exitCode' = 1
                  /\ hist' = [hist EXCEPT !.lifecycle = Append(@, "source.connect")]
    /\ UNCHANGED <<wal, settings, offsetFile, streamVars, target, handler,
                   handled, appliedOk, restarts, unitVars>>

\* disconnect() called on_source more times on the source connector and
\* on_target more times on the target connector
Disconnected(d, on_source, on_target) ==
    [source |-> d.source + on_source, target |-> d.target + on_target]

\* main.py:74-92: source.setup_cdc(tables); on failure disconnect both, exit 1
SetupCdcIgnoresFailure ==
    /\ pc = "setup_cdc"
    /\ \E ok \in BOOLEAN :
          /\ pc' = "sync"
          /\ UNCHANGED <<connected, exitCode>>
          /\ hist' = IF ok
                     THEN [hist EXCEPT !.lifecycle = Append(@, "setup_cdc")]
                     ELSE hist
    /\ UNCHANGED <<wal, settings, offsetFile, streamVars, target, handler,
                   handled, appliedOk, restarts, unitVars>>

SetupCdc ==
    /\ pc = "setup_cdc"
    /\ \E ok \in BOOLEAN :
          IF ok
          THEN /\ pc' = "sync"
               /\ UNCHANGED <<connected, exitCode>>
               /\ hist' = [hist EXCEPT !.lifecycle = Append(@, "setup_cdc")]
          ELSE /\ connected' = [source |-> FALSE, target |-> FALSE]
               /\ pc' = "exited"
               /\ exitCode' = 1
               /\ hist' = [hist EXCEPT !.disconnects = Disconnected(@, 1, 1)]
    /\ UNCHANGED <<wal, settings, offsetFile, streamVars, target, handler,
                   handled, appliedOk, restarts, unitVars>>

\* PostgreSQLConnector.start_streaming, lines 134-138: the position to start at
StartPosition(last_offset, w) ==
    IF last_offset = None THEN get_current_position(w) ELSE last_offset

\* main.py:109-116 and PostgreSQLConnector.start_streaming up to
\* start_replication, which either succeeds or raises
StartStreaming ==
    /\ pc = "sync"
    /\ LET last_offset == get_offset(offsetFile, StreamName(settings))
           start == StartPosition(last_offset, wal)
       IN  \E ok \in BOOLEAN :
              IF ok /\ Readable(offsetFile)
              THEN /\ pc' = "streaming"
                   /\ start_lsn' = start
                   /\ streamPos' = start
                   /\ firstStart' = IF firstStart = None THEN start ELSE firstStart
                   /\ hist' = [hist EXCEPT !.lifecycle = Append(@, "start_streaming")]
              ELSE /\ pc' = "finally"
                   /\ UNCHANGED <<start_lsn, streamPos, firstStart, hist>>
    /\ UNCHANGED <<wal, settings, offsetFile, exitCode, connected, event_stream,
                   decoded, target, handler, handled, appliedOk, restarts,
                   unitVars>>

\* main.py:95-100 then 137-143: signal_handler disconnects both and calls
\* sys.exit(0). Inside the try block SystemExit passes the finally block,
\* which disconnects both again; inside the finally block it ends the block
\* where the signal found it: before its source.disconnect(), between its
\* two disconnects, or after both
SignalHandler ==
    /\ pc \in {"sync", "streaming", "finally"}
    /\ connected' = [source |-> FALSE, target |-> FALSE]
    /\ pc' = "exited"
    /\ exitCode' = 0
    /\ \E done \in IF pc = "finally" THEN 0..2 ELSE {2} :
          hist' = [hist EXCEPT !.disconnects =
                     Disconnected(@, 1 + (IF done >= 1 THEN 1 ELSE 0),
                                     1 + (IF done >= 2 THEN 1 ELSE 0))]
    /\ UNCHANGED <<wal, settings, offsetFile, streamVars, target, handler,
                   handled, appliedOk, restarts, unitVars>>

\* main.py:135-143: the sync error is printed, both connectors disconnect and
\* main returns
Finally ==
    /\ pc = "finally"
    /\ connected' = [source |-> FALSE, target |-> FALSE]
    /\ pc' = "exited"
    /\ exitCode' = 0
    /\ hist' = [hist EXCEPT !.disconnects = Disconnected(@, 1, 1)]
    /\ UNCHANGED <<wal, settings, offsetFile, streamVars, target, handler,
                   handled, appliedOk, restarts, unitVars>>

\* --------------------------------------------- the PostgreSQL source as is
\* PostgreSQLConnector._process_message: the payload is decoded when it is
\* JSON, the event is printed, and send_feedback(flush_lsn=msg.daata_start)
\* raises AttributeError because data_start is set on every message.
\* Returns [event, raised, feedback]: feedback is the flush_lsn given to
\* send_feedback, None when send_feedback is not called.
process_message_sends_feedback(data, lsn, parsable, now) ==
    [event |-> IF parsable THEN parse_wal_data(data, lsn, now) ELSE NoEvent,
     raised |-> FALSE,
     feedback |-> lsn]

process_message(data, lsn, parsable, now) ==
    [event |-> IF parsable THEN parse_wal_data(data, lsn, now) ELSE NoEvent,
     raised |-> lsn # None,
     feedback |-> None]

\* consume_stream hands the next log message to _process_message; what it
\* raises leaves start_streaming and is caught by main.py:135
PgConsumeMessage ==
    /\ pc = "streaming"
    /\ streamPos < Len(wal)
    /\ LET lsn == streamPos + 1 IN
       \E parsable \in BOOLEAN :
          LET m == process_message(wal[lsn], lsn, parsable, Len(decoded) + 1) IN
          /\ streamPos' = lsn
          /\ decoded' = IF m.event # NoEvent THEN Append(decoded, lsn) ELSE decoded
          /\ pc' = IF m.raised THEN "finally" ELSE pc
          /\ hist' = IF m.feedback # None
                     THEN [hist EXCEPT !.feedback = @ \cup {m.feedback}]
                     ELSE hist
    /\ UNCHANGED <<wal, settings, offsetFile, exitCode, connected, start_lsn,
                   event_stream, firstStart, target, handler, handled, appliedOk,
                   restarts, unitVars>>

Next ==
    \/ SourceCommit
    \/ Kill
    \/ Restart
    \/ Validate
    \/ Connect
    \/ SetupCdc
    \/ StartStreaming
    \/ SignalHandler
    \/ Finally
    \/ PgConsumeMessage

\* main.py as shipped: PostgreSQL source, MySQL target
Spec == Init /\ [][Next]_vars

\* main() under every configuration validate() accepts or rejects: the source
\* and the target type each "postgresql" or "mysql" (settings.py:13)
TypedSettings == [valid : BOOLEAN, source_type : DbTypes, target_type : DbTypes]

InitTypes ==
    /\ wal = <<>>
    /\ target = EmptyTable
    /\ offsetFile = NoOffsets
    /\ settings \in TypedSettings
    /\ pc = "main"
    /\ exitCode = None
    /\ connected = [source |-> FALSE, target |-> FALSE]
    /\ handler = NewHandler
    /\ start_lsn = None
    /\ streamPos = None
    /\ event_stream = <<>>
    /\ decoded = <<>>
    /\ handled = <<>>
    /\ appliedOk = {}
    /\ restarts = 0
    /\ firstStart = None
    /\ hist = NoHist
    /\ probe = NoProbe
    /\ conflict = NoConflict
    /\ mirror = NoMirror
    /\ parsed = NoParsed
    /\ cdc = NoCdc
    /\ saves = NoSaves

SpecTypes == InitTypes /\ [][Next]_vars

\* ------------------------------- the main loop over a yielding connector
\* BaseConnector.start_streaming as its contract states it: a lazy sequence
\* of the ChangeEvents of the log after the start position, in log order
StreamYield ==
    /\ pc = "streaming"
    /\ streamPos < Len(wal)
    /\ Len(event_stream) < MaxBuffer
    /\ LET lsn == streamPos + 1
           event == parse_wal_data(wal[lsn], lsn, Len(decoded) + 1)
       IN  /\ streamPos' = lsn
           /\ decoded' = Append(decoded, lsn)
           /\ event_stream' = Append(event_stream, event)
    /\ UNCHANGED <<wal, settings, offsetFile, runVars, start_lsn, firstStart,
                   applyVars, restarts, unitVars>>

\* main.py:118  "for event in event_stream": the next event of the iterator
ForNextLast(stream) == stream[Len(stream)]

ForNext(stream) == Head(stream)

\* main.py:123  "if handler.processed_count % 100 == 0"
CheckpointDue(h) == h.processed_count % CheckpointEvery = 0

\* main.py:118-136: an exception raised in the loop body leaves the loop
\* for the except clause and the finally block
LoopExitSwallows(raised) == "streaming"

LoopExit(raised) == IF raised THEN "finally" ELSE "streaming"

\* main.py:118-131: one iteration of the loop: process_event, then the
\* periodic save of source.get_current_position()
LoopBody ==
    /\ pc = "streaming"
    /\ event_stream # <<>>
    /\ LET event == ForNext(event_stream) IN
       \E fault \in BOOLEAN :
          LET r == process_event(handler, target, event, fault)
              due == CheckpointDue(r.handler)
          IN
          \E outcome \in IF due THEN SaveOutcomes ELSE {"saved"} :
             LET raised == due /\ save_raises(offsetFile, outcome)
                 killed == due /\ Readable(offsetFile) /\ outcome = "killed"
             IN
             /\ event_stream' = SelectSeq(event_stream, LAMBDA e : e # event)
             /\ handler' = r.handler
             /\ target' = r.table
             /\ handled' = Append(handled, event.lsn)
             /\ appliedOk' = IF r.ok THEN appliedOk \cup {event.lsn} ELSE appliedOk
             /\ offsetFile' = IF due /\ Readable(offsetFile)
                              THEN write_offsets(offsetFile, StreamName(settings),
                                                 get_current_position(wal), outcome)
                              ELSE offsetFile
             /\ pc' = IF killed THEN "exited" ELSE LoopExit(raised)
             /\ hist' = [hist EXCEPT
                           !.transient = IF ~r.ok /\ fault
                                         THEN @ \cup {event.lsn} ELSE @,
                           !.permanent = IF ~r.ok /\ ~fault
                                         THEN @ \cup {event.lsn} ELSE @,
                           !.ioFailedAt = IF raised THEN Len(handled) + 1 ELSE @,
                           !.applying = FALSE,
                           !.overwrote =
                               IF r.ok
                               THEN @ \cup {[incoming |-> event, local |-> t] :
                                             t \in {x \in hist.targetWrites :
                                                      x.primary_key = event.primary_key}}
                               ELSE @]
    /\ UNCHANGED <<wal, settings, exitCode, connected, start_lsn, streamPos,
                   decoded, firstStart, restarts, unitVars>>

NextLoop ==
    \/ SourceCommit
    \/ Kill
    \/ Restart
    \/ Validate
    \/ Connect
    \/ SetupCdc
    \/ StartStreaming
    \/ SignalHandler
    \/ Finally
    \/ StreamYield
    \/ LoopBody

\* main.py driven by a source connector whose start_streaming yields
SpecLoop == Init /\ [][NextLoop]_vars

\* ----------------------------------- the main loop, a signal mid-apply
\* handler.process_event(event) has called target.apply_change(event) and
\* the statement is with the target; the loop step that follows completes it
ApplyBegin ==
    /\ pc = "streaming"
    /\ event_stream # <<>>
    /\ ~hist.applying
    /\ hist' = [hist EXCEPT !.applying = TRUE]
    /\ UNCHANGED <<wal, settings, offsetFile, runVars, streamVars, target,
                   handler, handled, appliedOk, restarts, unitVars>>

\* main.py:95-103: signal.signal installs signal_handler for the whole
\* process, so it runs at whatever point the main thread is, here inside
\* apply_change: it closes both connectors and raises SystemExit, which no
\* "except Exception" catches. The statement has been executed by the target
\* or it has not.
SignalMidApply ==
    /\ pc = "streaming"
    /\ hist.applying
    /\ \E executed \in BOOLEAN :
          target' = IF executed
                    THEN apply_change(target, ForNext(event_stream), FALSE).table
                    ELSE target
    /\ connected' = [source |-> FALSE, target |-> FALSE]
    /\ pc' = "exited"
    /\ exitCode' = 0
    /\ hist' = [hist EXCEPT !.disconnects = Disconnected(@, 2, 2)]
    /\ UNCHANGED <<wal, settings, offsetFile, streamVars, handler, handled,
                   appliedOk, restarts, unitVars>>

NextSignal ==
    \/ NextLoop
    \/ ApplyBegin
    \/ SignalMidApply

SpecSignal == Init /\ [][NextSignal]_vars

\* ------------------------------ the main loop with clients at the target
MaxTargetWrites == 1

\* SyncConfig.conflict_resolution default (config/settings.py:43-47), the
\* strategy main.py:64 builds the ConflictResolver with
DefaultStrategy == "last_write_wins"

\* the table after the write that puts record r into the log
Written(t, r) ==
    CASE r.action = "I" -> [t EXCEPT ![r.columns.id] = r.columns.name]
      [] r.action = "U" -> [t EXCEPT ![r.identity.id] = Absent,
                                     ![r.columns.id] = r.columns.name]
      [] OTHER -> [t EXCEPT ![r.identity.id] = Absent]

\* the binlog event class of a row change
BinlogType(action) ==
    CASE action = "I" -> "WriteRowsEvent"
      [] action = "U" -> "UpdateRowsEvent"
      [] OTHER -> "DeleteRowsEvent"

\* a client of the target database commits a row change there; the change
\* as the target's own capture would describe it is kept in hist
TargetCommit ==
    /\ Cardinality(hist.targetWrites) < MaxTargetWrites
    /\ \E r \in Writes(target) :
          /\ target' = Written(target, r)
          /\ hist' = [hist EXCEPT !.targetWrites = @ \cup
                        {parse_binlog_event(BinlogType(r.action), r.identity,
                                            r.columns, Len(decoded), 0)}]
    /\ UNCHANGED <<wal, settings, offsetFile, runVars, streamVars, handler,
                   handled, appliedOk, restarts, unitVars>>

\* main.py:74-131 with enable_bidirectional set: the same single loop from
\* the source to the target; nothing reads the target's changes
NextBidi ==
    \/ NextLoop
    \/ TargetCommit

SpecBidi == Init /\ [][NextBidi]_vars

\* ---------------------------------------- apply_change on its own inputs
\* the events the two connectors' parsers can build
ProbeEvents ==
    {parse_wal_data(r, 0, 0) : r \in WalRecords}
    \cup {parse_binlog_event(ty, KeyImage(k), row, 0, 0) :
             ty \in BinlogEventTypes, k \in Keys, row \in Rows}

pipelineIdle ==
    /\ wal = <<>>
    /\ offsetFile = NoOffsets
    /\ settings = [valid |-> TRUE, source_type |-> "postgresql"]
    /\ pc = "unit"
    /\ exitCode = None
    /\ connected = [source |-> TRUE, target |-> TRUE]
    /\ start_lsn = None
    /\ streamPos = None
    /\ event_stream = <<>>
    /\ decoded = <<>>
    /\ appliedOk = {}
    /\ restarts = 0
    /\ firstStart = None
    /\ hist = NoHist

InitApply ==
    /\ pipelineIdle
    /\ target \in Tables
    /\ handler = NewHandler
    /\ handled = <<>>
    /\ \E e \in ProbeEvents : probe = [NoProbe EXCEPT !.event = e, !.target0 = target]
    /\ conflict = NoConflict
    /\ mirror = NoMirror
    /\ parsed = NoParsed
    /\ cdc = NoCdc
    /\ saves = NoSaves

\* handler.process_event(event), again for a re-delivery of the same event
Deliver ==
    /\ Len(probe.rets) < MaxDeliveries
    /\ \E fault \in BOOLEAN :
          LET r == process_event(handler, target, probe.event, fault) IN
          /\ target' = r.table
          /\ handler' = r.handler
          /\ handled' = Append(handled, probe.event.lsn)
          /\ probe' = [probe EXCEPT !.rets = Append(@, r.ok),
                                    !.faults = Append(@, fault),
                                    !.tables = Append(@, r.table)]
    /\ UNCHANGED <<wal, settings, offsetFile, runVars, streamVars, appliedOk,
                   restarts, hist, conflict, mirror, checkVars>>

NextApply == Deliver

SpecApply == InitApply /\ [][NextApply]_vars

\* ------------------------------- two handlers wired in opposite directions
MaxMirrorWrites == 2
MaxMirrorLog == 3

\* the record a database logs for the statement apply_change executed
Logged(event) ==
    CASE event.operation = "INSERT" -> WalRecord("I", NoImage, event.after)
      [] event.operation = "UPDATE" ->
            WalRecord("U", KeyImage(event.primary_key), event.after)
      [] OTHER -> WalRecord("D", KeyImage(event.primary_key), NoImage)

InitMirror ==
    /\ pipelineIdle
    /\ target = EmptyTable
    /\ handler = NewHandler
    /\ handled = <<>>
    /\ probe = NoProbe
    /\ conflict = NoConflict
    /\ mirror = NoMirror
    /\ parsed = NoParsed
    /\ cdc = NoCdc
    /\ saves = NoSaves

\* a client of endpoint a commits a row change; endpoint b has no clients
MirrorClientWrite ==
    /\ mirror.writes < MaxMirrorWrites
    /\ Len(mirror.logA) < MaxMirrorLog
    /\ \E r \in Writes(mirror.a) :
          mirror' = [mirror EXCEPT !.a = Written(@, r),
                                   !.logA = Append(@, r),
                                   !.writes = @ + 1]
    /\ UNCHANGED <<wal, settings, offsetFile, runVars, streamVars, applyVars,
                   restarts, probe, conflict, checkVars>>

\* EventHandler(a, b).process_event on the next change of a's log
\* (PostgreSQL); a statement that changes b is in b's log
MirrorForward ==
    /\ mirror.readA < Len(mirror.logA)
    /\ Len(mirror.logB) < MaxMirrorLog
    /\ LET lsn == mirror.readA + 1
           event == parse_wal_data(mirror.logA[lsn], lsn, lsn)
       IN  \E fault \in BOOLEAN :
              LET r == process_event(mirror.hAB, mirror.b, event, fault) IN
              mirror' = [mirror EXCEPT
                            !.readA = lsn,
                            !.hAB = r.handler,
                            !.b = r.table,
                            !.logB = IF r.table # mirror.b
                                     THEN Append(@, Logged(event)) ELSE @]
    /\ UNCHANGED <<wal, settings, offsetFile, runVars, streamVars, applyVars,
                   restarts, probe, conflict, checkVars>>

\* EventHandler(b, a).process_event on the next change of b's log (MySQL)
MirrorBackward ==
    /\ mirror.readB < Len(mirror.logB)
    /\ Len(mirror.logA) < MaxMirrorLog
    /\ LET pos == mirror.readB + 1
           rec == mirror.logB[pos]
           event == parse_binlog_event(BinlogType(rec.action), rec.identity,
                                       rec.columns, pos, pos)
       IN  \E fault \in BOOLEAN :
              LET r == process_event(mirror.hBA, mirror.a, event, fault) IN
              mirror' = [mirror EXCEPT
                            !.readB = pos,
                            !.hBA = r.handler,
                            !.a = r.table,
                            !.logA = IF r.table # mirror.a
                                     THEN Append(@, Logged(event)) ELSE @]
    /\ UNCHANGED <<wal, settings, offsetFile, runVars, streamVars, applyVars,
                   restarts, probe, conflict, checkVars>>

NextMirror ==
    \/ MirrorClientWrite
    \/ MirrorForward
    \/ MirrorBackward

\* two pipelines, mirrored, each with the EventHandler of the source
SpecMirror == InitMirror /\ [][NextMirror]_vars

\* ------------------------------------------ ConflictResolver on its inputs
Sources == {"mysql", "postgresql"}

\* two captured changes of the same row, one from each side
ConflictEvents ==
    {ChangeEvent("UPDATE", KeyImage(1), [id |-> 1, name |-> v], 1, ts, 0, src) :
        v \in Vals, ts \in 0..MaxTime, src \in Sources}

InitResolve ==
    /\ pipelineIdle
    /\ target = EmptyTable
    /\ handler = NewHandler
    /\ handled = <<>>
    /\ probe = NoProbe
    /\ mirror = NoMirror
    /\ parsed = NoParsed
    /\ cdc = NoCdc
    /\ saves = NoSaves
    /\ \E st \in Strategies, l \in ConflictEvents, r \in ConflictEvents :
          conflict = [NoConflict EXCEPT !.strategy = st, !.local_event = l,
                                        !.remote_event = r]

\* resolver.resolve(local_event, remote_event)
Resolve ==
    /\ ~conflict.resolved
    /\ conflict' = [conflict EXCEPT
                      !.winner = resolve(conflict.strategy, conflict.local_event,
                                         conflict.remote_event),
                      !.resolved = TRUE]
    /\ UNCHANGED <<wal, settings, offsetFile, runVars, streamVars, applyVars,
                   restarts, probe, mirror, checkVars>>

NextResolve == Resolve

SpecResolve == InitResolve /\ [][NextResolve]_vars

\* ------------------------------------------- OffsetManager on its inputs
MaxSaves == 3

\* the positions a connector reports
Positions == 0..MaxWal

\* a new storage directory: no offsets.json
InitOffsets ==
    /\ pipelineIdle
    /\ target = EmptyTable
    /\ handler = NewHandler
    /\ handled = <<>>
    /\ probe = NoProbe
    /\ conflict = NoConflict
    /\ mirror = NoMirror
    /\ parsed = NoParsed
    /\ cdc = NoCdc
    /\ saves = NoSaves

\* offset_mgr.save_offset(connector_name, position), no I/O error
SaveOffset ==
    /\ saves.count < MaxSaves
    /\ \E n \in StreamNames, p \in Positions :
          /\ offsetFile' = save_offset(offsetFile, n, p)
          /\ saves' = [count |-> saves.count + 1, saved |-> saves.saved \cup {n},
                       name |-> n, position |-> p, before |-> offsetFile]
    /\ UNCHANGED <<wal, settings, runVars, streamVars, applyVars, restarts,
                   probe, conflict, mirror, parsed, cdc>>

NextOffsets == SaveOffset

SpecOffsets == InitOffsets /\ [][NextOffsets]_vars

\* ------------------------------------------------ setup_cdc on its inputs
MaxSetupCalls == 2

TableNames == {"users", "orders"}

\* settings.sync.tables_list, at least one table
TableLists == SUBSET TableNames \ {{}}

\* pg_publication has no row for the name
NoPublication == {}

\* PostgreSQLConnector.setup_cdc(tables) on a server db = [slot, publication]:
\* the slot is created if pg_replication_slots has no row for it, the
\* publication is created for the tables if pg_publication has no row for
\* it; a statement that fails (fault_at) raises. Returns the server after
\* the call, whether it raised and what it created.
pg_setup_cdc(db, tables, fault_at) ==
    LET slot_created == ~db.slot /\ fault_at # "slot"
        pub_created == db.publication = NoPublication /\ fault_at = "none"
    IN  [slot |-> db.slot \/ slot_created,
         publication |-> IF pub_created THEN tables ELSE db.publication,
         raised |-> fault_at # "none",
         created |-> (IF slot_created THEN {"slot"} ELSE {})
                     \cup (IF pub_created THEN {"publication"} ELSE {})]

\* MySQLConnector.setup_cdc(tables) on a server with the given log_bin and
\* binlog_format: it prints what it finds; it returns early when log_bin is
\* not ON and goes on to look for the tables otherwise. It raises only when
\* a statement fails.
mysql_setup_cdc(log_bin, binlog_format, tables, fault) ==
    [raised |-> fault,
     format_warned |-> ~fault /\ log_bin = "ON" /\ binlog_format # "ROW",
     tables_checked |-> IF ~fault /\ log_bin = "ON" THEN tables ELSE {}]

\* a connected server and the configured tables
InitSetup ==
    /\ pipelineIdle
    /\ target = EmptyTable
    /\ handler = NewHandler
    /\ handled = <<>>
    /\ probe = NoProbe
    /\ conflict = NoConflict
    /\ mirror = NoMirror
    /\ parsed = NoParsed
    /\ saves = NoSaves
    /\ \/ \E s \in BOOLEAN, p \in TableLists \cup {NoPublication}, ts \in TableLists :
             cdc = [NoCdc EXCEPT !.engine = "postgresql", !.slot = s,
                                 !.publication = p, !.tables = ts]
       \/ \E lb \in {"ON", "OFF"}, bf \in {"ROW", "STATEMENT", "MIXED"},
             ts \in TableLists :
             cdc = [NoCdc EXCEPT !.engine = "mysql", !.log_bin = lb,
                                 !.binlog_format = bf, !.tables = ts]

\* source.setup_cdc(tables) on the PostgreSQL connector
PgSetupCdc ==
    /\ cdc.engine = "postgresql"
    /\ cdc.calls < MaxSetupCalls
    /\ \E fault_at \in {"none", "slot", "publication"} :
          LET r == pg_setup_cdc(cdc, cdc.tables, fault_at) IN
          cdc' = [cdc EXCEPT !.slot = r.slot, !.publication = r.publication,
                             !.raised = r.raised, !.created = r.created,
                             !.calls = @ + 1,
                             !.before = [slot |-> cdc.slot,
                                         publication |-> cdc.publication]]
    /\ UNCHANGED <<wal, settings, offsetFile, runVars, streamVars, applyVars,
                   restarts, probe, conflict, mirror, parsed, saves>>

\* setup_cdc(tables) on the MySQL connector
MysqlSetupCdc ==
    /\ cdc.engine = "mysql"
    /\ cdc.calls < MaxSetupCalls
    /\ \E fault \in BOOLEAN :
          LET r == mysql_setup_cdc(cdc.log_bin, cdc.binlog_format, cdc.tables, fault) IN
          cdc' = [cdc EXCEPT !.raised = r.raised, !.calls = @ + 1]
    /\ UNCHANGED <<wal, settings, offsetFile, runVars, streamVars, applyVars,
                   restarts, probe, conflict, mirror, parsed, saves>>

NextSetup ==
    \/ PgSetupCdc
    \/ MysqlSetupCdc

SpecSetup == InitSetup /\ [][NextSetup]_vars

\* ----------------------------------- the connectors' parsers on their inputs
MaxBinlogFile == 2
MaxLogPos == 2
MaxBinlogEvents == 3

\* a row image as the set of the column names it carries; None is {}
ColumnNames == {"id", "code", "user_id", "name"}
NoColumns == {}

\* a replicated table: its columns and its primary key
TableShapes ==
    UNION {{[columns |-> cs, pk |-> pk] : pk \in SUBSET cs \ {{}}} :
              cs \in SUBSET ColumnNames}

ColumnsEvent(op, before, after, pk, src) ==
    [operation |-> op, before |-> before, after |-> after, primary_key |-> pk,
     source_db |-> src]

\* k.endswith("_id") or k == "id"
LooksLikeKey(k) == k \in {"id", "user_id"}

\* PostgreSQLConnector._extract_pk on the column names of an image
extract_pk_columns(data) ==
    IF data = NoColumns THEN {} ELSE {k \in data : LooksLikeKey(k)}

\* PostgreSQLConnector._parse_wal_data on the column names of a message
parse_wal_columns(action, identity, columns) ==
    CASE action = "I" ->
            ColumnsEvent("INSERT", NoColumns, columns,
                         extract_pk_columns(columns), "postgresql")
      [] action = "U" ->
            ColumnsEvent("UPDATE", identity, columns,
                         extract_pk_columns(identity), "postgresql")
      [] OTHER ->
            ColumnsEvent("DELETE", identity, NoColumns,
                         extract_pk_columns(identity), "postgresql")

\* MySQLConnector._extract_pk_from_row on the column names of an image:
\* the primary key of get_table_schema, or "id" when the lookup raises
extract_pk_from_row_columns(data, primary_keys, lookup_ok) ==
    IF lookup_ok THEN {pk \in primary_keys : pk \in data}
    ELSE IF "id" \in data THEN {"id"} ELSE {}

\* MySQLConnector._parse_binlog_event on the column names of a row
parse_binlog_columns(event_type, before_values, after_values, pks, lookup_ok) ==
    LET operation == CASE event_type = "WriteRowsEvent" -> "INSERT"
                       [] event_type = "UpdateRowsEvent" -> "UPDATE"
                       [] event_type = "DeleteRowsEvent" -> "DELETE"
                       [] OTHER -> "SNAPSHOT"
        before == IF operation \in {"UPDATE", "DELETE"} THEN before_values
                  ELSE NoColumns
        after == IF operation = "DELETE" THEN NoColumns ELSE after_values
    IN  ColumnsEvent(operation, before, after,
                     extract_pk_from_row_columns(
                         IF before # NoColumns THEN before ELSE after,
                         pks, lookup_ok),
                     "mysql")

\* a replicated table; the binlog is at the start of its first file
InitParse ==
    /\ pipelineIdle
    /\ target = EmptyTable
    /\ handler = NewHandler
    /\ handled = <<>>
    /\ probe = NoProbe
    /\ conflict = NoConflict
    /\ mirror = NoMirror
    /\ cdc = NoCdc
    /\ saves = NoSaves
    /\ \E t \in TableShapes : parsed = [NoParsed EXCEPT !.table = t, !.file = 1]

\* _parse_wal_data on the message of a change of the table: the new row in
\* columns, the old key (or the whole old row, REPLICA IDENTITY FULL) in
\* identity
ParseWalMessage ==
    /\ parsed.event.operation = "NONE"
    /\ \E action \in {"I", "U", "D"}, full \in BOOLEAN :
          LET identity == IF action = "I" THEN NoColumns
                          ELSE IF full THEN parsed.table.columns
                          ELSE parsed.table.pk
              columns == IF action = "D" THEN NoColumns ELSE parsed.table.columns
          IN  parsed' = [parsed EXCEPT
                            !.event = parse_wal_columns(action, identity, columns)]
    /\ UNCHANGED <<wal, settings, offsetFile, runVars, streamVars, applyVars,
                   restarts, probe, conflict, mirror, cdc, saves>>

\* _parse_binlog_event on a row of a rows event of the table, with full row
\* images; get_table_schema answers or raises
ParseBinlogRow ==
    /\ parsed.event.operation = "NONE"
    /\ \E event_type \in BinlogEventTypes, lookup_ok \in BOOLEAN :
          LET t == parsed.table
          IN  parsed' = [parsed EXCEPT
                            !.event = parse_binlog_columns(event_type, t.columns,
                                                           t.columns, t.pk,
                                                           lookup_ok)]
    /\ UNCHANGED <<wal, settings, offsetFile, runVars, streamVars, applyVars,
                   restarts, probe, conflict, mirror, cdc, saves>>

\* the server writes the next rows event to its binlog, in the current file
\* or, after a rotation, in the next file; _parse_binlog_event builds the
\* event, whose position is event.packet.log_pos
EmitBinlogEvent ==
    /\ Len(parsed.positions) < MaxBinlogEvents
    /\ \E rotate \in BOOLEAN, log_pos \in 1..MaxLogPos, row \in Rows :
          /\ IF rotate THEN parsed.file < MaxBinlogFile ELSE log_pos > parsed.log_pos
          /\ LET event == parse_binlog_event("WriteRowsEvent", NoImage, row,
                                             Len(parsed.positions), log_pos)
             IN  parsed' = [parsed EXCEPT
                               !.file = IF rotate THEN @ + 1 ELSE @,
                               !.log_pos = log_pos,
                               !.positions = Append(@, event.lsn)]
    /\ UNCHANGED <<wal, settings, offsetFile, runVars, streamVars, applyVars,
                   restarts, probe, conflict, mirror, cdc, saves>>

NextParse ==
    \/ ParseWalMessage
    \/ ParseBinlogRow
    \/ EmitBinlogEvent

SpecParse == InitParse /\ [][NextParse]_vars

\* ================================================================ claims

\* C1: every position the main loop saves to the offset store is a position
\* p such that every source event of the stream at a position <= p was
\* applied at the target with success.
C1_SavedOffsetIsApplied ==
    \A n \in StreamNames :
        (offsetFile[n] # None /\ firstStart # None) =>
            \A p \in (firstStart + 1)..offsetFile[n] : p \in appliedOk

\* C2: after a restart no event that the source committed while the
\* pipeline was in service and that was never applied lies at or before the
\* position streaming starts from, so it is delivered again.
C2_RestartRedeliversUnapplied ==
    (pc = "streaming" /\ restarts >= 1 /\ firstStart # None) =>
        \A p \in 1..Len(wal) :
            (p > firstStart /\ p \notin appliedOk) => p > start_lsn

\* C3: when the stream has ended, the events given to process_event are
\* exactly the change records the connector decoded, in the same order.
C3_DecodedEventsAreHandled ==
    pc = "finally" => handled = decoded

\* C4: the events are submitted to apply_change in the order the connector
\* emitted them, none skipped and none reordered.
C4_ApplyOrderIsEmitOrder ==
    /\ Len(handled) <= Len(decoded)
    /\ handled = SubSeq(decoded, 1, Len(handled))

C4_Witness ==
    /\ pc = "streaming"
    /\ Len(handled) >= 2
    /\ handled[1] < handled[2]

\* C5: applying an event and then the identical event again leaves the
\* target table as it was after the first application.
C5_ApplyIdempotent ==
    \A i \in 1..(Len(probe.tables) - 1) :
        ~probe.faults[i] => probe.tables[i + 1] = probe.tables[i]

C5_Witness ==
    /\ Len(probe.tables) = 2
    /\ ~probe.faults[1] /\ ~probe.faults[2]
    /\ probe.rets[1]
    /\ probe.tables[1] # probe.target0
    /\ probe.tables[2] = probe.tables[1]

\* C6: an INSERT whose primary key already has a row at the target reports
\* success and leaves that row equal to the event's after image.
C6_InsertExistingKeyUpserts ==
    (/\ Len(probe.rets) >= 1
     /\ probe.event.operation = "INSERT"
     /\ probe.target0[probe.event.after.id] # Absent
     /\ ~probe.faults[1]) =>
        /\ probe.rets[1]
        /\ probe.tables[1][probe.event.after.id] = probe.event.after.name

\* C7: a DELETE or UPDATE whose primary key has no row at the target is a
\* skip: success is reported, processed_count goes up by one, error_count
\* stays, and the table is unchanged.
C7_MissingRowIsSkip ==
    (/\ Len(probe.rets) = 1
     /\ probe.event.operation \in {"DELETE", "UPDATE"}
     /\ probe.target0[probe.event.primary_key] = Absent
     /\ ~probe.faults[1]) =>
        /\ probe.rets[1]
        /\ handler.processed_count = 1
        /\ handler.error_count = 0
        /\ target = probe.target0

C7_Witness ==
    /\ Len(probe.rets) = 1
    /\ probe.event.operation = "DELETE"
    /\ probe.target0[probe.event.primary_key] = Absent
    /\ probe.target0 # EmptyTable
    /\ ~probe.faults[1]
    /\ handler.processed_count = 1

C9_SnapshotUpserts ==
    (/\ Len(probe.rets) >= 1
     /\ probe.event.operation = "SNAPSHOT"
     /\ probe.rets[1]) =>
        probe.tables[1][probe.event.after.id] = probe.event.after.name

\* C10: under last_write_wins resolve returns the event with the greater
\* timestamp, and the winner is the same event whichever of the two is
\* passed as local and which as remote.
C10_LastWriteWinsSymmetric ==
    (conflict.resolved /\ conflict.strategy = "last_write_wins") =>
        /\ conflict.local_event.timestamp > conflict.remote_event.timestamp
              => conflict.winner = conflict.local_event
        /\ conflict.remote_event.timestamp > conflict.local_event.timestamp
              => conflict.winner = conflict.remote_event
        /\ conflict.winner = resolve(conflict.strategy, conflict.remote_event,
                                     conflict.local_event)

\* C11: under source_priority resolve returns the local (source) event and
\* under target_priority the remote (target) event, whatever the two
\* timestamps are.
C11_PriorityStrategiesFixedWinner ==
    conflict.resolved =>
        /\ conflict.strategy = "source_priority"
              => conflict.winner = conflict.local_event
        /\ conflict.strategy = "target_priority"
              => conflict.winner = conflict.remote_event

\* a priority strategy was resolved against the order of the timestamps
C11_Witness ==
    /\ conflict.resolved
    /\ conflict.local_event # conflict.remote_event
    /\ \/ /\ conflict.strategy = "source_priority"
          /\ conflict.local_event.timestamp < conflict.remote_event.timestamp
          /\ conflict.winner = conflict.local_event
       \/ /\ conflict.strategy = "target_priority"
          /\ conflict.local_event.timestamp > conflict.remote_event.timestamp
          /\ conflict.winner = conflict.remote_event

\* C15: a crash of the process at any point of save_offset leaves an
\* offsets.json that load_offsets parses: the record set from before the
\* save or the one from after it, never an empty or truncated file.
C15_OffsetFileSurvivesCrash ==
    (pc = "exited" /\ exitCode = None) => Readable(offsetFile)

C17_TransientFailureIsRetried ==
    \A p \in hist.transient :
        \/ p \in appliedOk
        \/ Cardinality({i \in 1..Len(handled) : handled[i] = p}) = max_retries + 1

\* C18: after an event failed permanently, no later event of the stream is
\* applied and the saved offset stays before the failed event.
C18_PermanentFailureHalts ==
    \A p \in hist.permanent :
        /\ \A i \in 1..Len(handled) :
              handled[i] > p => handled[i] \notin appliedOk
        /\ offsetFile[StreamName(settings)] < p

\* C19: once save_offset raised, the main loop is left and no further event
\* is given to process_event in this run.
C19_OffsetFailureStops ==
    hist.ioFailedAt # None =>
        /\ pc \in {"finally", "exited"}
        /\ Len(handled) = hist.ioFailedAt

\* save_offset raised after an event was processed; the program went through
\* the finally block and exited
C19_Witness ==
    /\ hist.ioFailedAt # None
    /\ hist.ioFailedAt = Len(handled)
    /\ pc = "exited"
    /\ exitCode = 0
    /\ ~connected.source /\ ~connected.target

\* C20: when the stream has nothing more to deliver (every log record was
\* yielded and handled, the loop waits for the next event), the saved offset
\* has reached the position of every event applied in this run.
C20_CheckpointReachesApplied ==
    (pc = "streaming" /\ event_stream = <<>> /\ streamPos = Len(wal)) =>
        \A i \in 1..Len(handled) :
            handled[i] \in appliedOk =>
                offsetFile[StreamName(settings)] >= handled[i]

\* C12: an incoming event whose primary key the other side changed before
\* it is applied only when the resolver picks it: under the configured
\* strategy the incoming event is the winner of every such pair.
C12_OnlyConflictWinnerApplied ==
    \A c \in hist.overwrote :
        resolve(DefaultStrategy, c.incoming, c.local) = c.incoming

\* C14: when every change of the source was delivered and handled and the
\* loop waits for the next event, the two endpoints hold the same row under
\* every key the target's clients changed.
C14_TargetChangesReachSource ==
    (pc = "streaming" /\ event_stream = <<>> /\ streamPos = Len(wal)) =>
        \A t \in hist.targetWrites :
            \A k \in {t.primary_key, t.before.id, t.after.id} \cap Keys :
                SrcTable(wal)[k] = target[k]

\* C13: a change the apply engine wrote at the other endpoint and that
\* comes back through that endpoint's change capture is not applied at the
\* endpoint it came from: with clients at one endpoint only, the returning
\* direction's count of applied events stays 0.
C13_ReflectedEventNotApplied ==
    mirror.hBA.processed_count = 0

\* C21: when the program has shut down in order (signal, or the loop left
\* and the finally block done) after streaming started, the saved offset of
\* the stream has reached the position of every event applied in that run.
C21_FinalOffsetAtShutdown ==
    (pc = "exited" /\ exitCode = 0 /\ start_lsn # None) =>
        \A i \in 1..Len(handled) :
            handled[i] \in appliedOk =>
                offsetFile[StreamName(settings)] >= handled[i]

\* C22: whenever the program has exited by itself, on any path, no connector
\* it connected is still connected.
C22_SessionsReleasedOnExit ==
    (pc = "exited" /\ exitCode # None) =>
        ~connected.source /\ ~connected.target

\* C23: the exit status tells the outcome: it is one of 0, 1, 2, 3, and it is
\* 1 exactly when the configuration is invalid (a failure to connect or to
\* set up CDC exits with 2, not 1).
C23_ExitCodeIdentifiesOutcome ==
    (pc = "exited" /\ exitCode # None) =>
        /\ exitCode \in {0, 1, 2, 3}
        /\ exitCode = 1 <=> ~settings.valid

\* C24: while an apply of an event is in progress the target session is
\* open and the program has not exited by itself: a signal is acted on only
\* between events.
C24_SignalOnlyBetweenEvents ==
    hist.applying =>
        /\ connected.target
        /\ pc = "exited" => exitCode = None

\* C29: the stream is started only after source.connect, target.connect and
\* setup_cdc returned, in that order, and a run in which one of them failed
\* has exited without a message consumed, an event yielded or an event
\* handled.
C29_LifecycleOrder ==
    /\ (pc = "streaming" \/ start_lsn # None) =>
          hist.lifecycle = <<"source.connect", "target.connect", "setup_cdc",
                             "start_streaming">>
    /\ pc = "streaming" => connected.source /\ connected.target
    /\ Len(hist.lifecycle) < 4 =>
          streamPos = None /\ decoded = <<>> /\ event_stream = <<>> /\ handled = <<>>
    /\ exitCode = 1 => pc = "exited" /\ Len(hist.lifecycle) < 3

\* the stream was started after the three calls and a message was consumed
C29_Witness ==
    /\ Len(hist.lifecycle) = 4
    /\ decoded # <<>>
    /\ streamPos # None

\* C30: after save_offset(s, p), get_offset(s) is p and get_offset of every
\* other stream name is what it was before the save; get_offset of a name
\* that was never saved is None.
C30_OffsetRoundTripAndFrame ==
    /\ saves.count > 0 =>
          /\ get_offset(offsetFile, saves.name) = saves.position
          /\ \A n \in StreamNames \ {saves.name} :
                get_offset(offsetFile, n) = get_offset(saves.before, n)
    /\ \A n \in StreamNames \ saves.saved : get_offset(offsetFile, n) = None

\* a save of one name made after a save of the other name, which is kept
C30_Witness ==
    /\ saves.count > 1
    /\ \E n \in saves.saved \ {saves.name} :
          get_offset(offsetFile, n) # None /\ get_offset(offsetFile, n) # saves.position

\* C27: PostgreSQL setup_cdc creates nothing when the slot and the
\* publication exist, and when it returns without raising the publication
\* covers exactly the configured tables.
C27_PgSetupVerifiesPublication ==
    (cdc.engine = "postgresql" /\ cdc.calls > 0) =>
        /\ (cdc.before.slot /\ cdc.before.publication # NoPublication) =>
              /\ cdc.created = {}
              /\ cdc.slot /\ cdc.publication = cdc.before.publication
        /\ ~cdc.raised => cdc.publication = cdc.tables

\* C28: MySQL setup_cdc returns without raising only on a server with
\* log_bin = ON and binlog_format = ROW.
C28_MysqlSetupChecksBinlog ==
    (cdc.engine = "mysql" /\ cdc.calls > 0 /\ ~cdc.raised) =>
        cdc.log_bin = "ON" /\ cdc.binlog_format = "ROW"

\* C25: an event a connector's parser builds carries the whole primary key
\* of its table and nothing else as primary_key; an INSERT has no before
\* image and the key in after, a DELETE no after image and the key in
\* before, an UPDATE the key in both.
C25_EventInvariants ==
    parsed.event.operation # "NONE" =>
        LET e == parsed.event
            pk == parsed.table.pk
        IN  /\ e.primary_key # {}
            /\ e.primary_key = pk
            /\ e.operation = "INSERT" =>
                  e.before = NoColumns /\ pk \subseteq e.after
            /\ e.operation = "DELETE" =>
                  e.after = NoColumns /\ pk \subseteq e.before
            /\ e.operation = "UPDATE" =>
                  pk \subseteq e.before /\ pk \subseteq e.after

\* C26: the positions of the events emitted on a stream never decrease,
\* also when the binlog goes on in a new file.
C26_PositionsNonDecreasing ==
    \A i \in 1..Len(parsed.positions) : \A j \in i..Len(parsed.positions) :
        parsed.positions[i] <= parsed.positions[j]

\* C33: once streaming has started, a run that ends (end of the stream, sync
\* error, INT or TERM signal) has called disconnect exactly once on the
\* source connector and exactly once on the target connector.
C33_DisconnectExactlyOnce ==
    (pc = "exited" /\ exitCode = 0 /\ start_lsn # None) =>
        hist.disconnects = [source |-> 1, target |-> 1]

\* C31: the source connector main() runs is the class registered for the
\* configured source type and the target connector the class registered for
\* the configured target type.
C31_ConnectorsMatchConfiguredTypes ==
    hist.created # NoConnectors =>
        /\ hist.created.source = create(settings.source_type)
        /\ hist.created.target = create(settings.target_type)

====
